---- MODULE Spec2Model ----
(***************************************************************************)
(* I-Fridge 5-Tier recommendation engine:                                  *)
(*   backend/app/services/recommendation_engine.py  (RecommendationEngine) *)
(*   backend/app/services/scoring.py                (sub-scores)           *)
(*   backend/app/models/recommendation.py           (ScoredRecipe)         *)
(*   backend/app/api/routes/recommendations.py      (POST /recommend)      *)
(*                                                                         *)
(* Numbers.  Scores are floats in the code; here they are fixed-point      *)
(* integers in thousandths (ONE = 1.000), the resolution of the final      *)
(* round(score, 3).  match_pct is NUMERIC(.,2) in SQL and is kept in       *)
(* hundredths until float() converts it.  Adapter similarities are kept    *)
(* in ten-thousandths so that round(similarity, 3) is a real conversion.   *)
(* Flavor axis values are kept in halves (1 = 0.5, 2 = 1.0).  Dates are    *)
(* day numbers.                                                            *)
(***************************************************************************)
EXTENDS Integers, Sequences, FiniteSets, TLC

VARIABLES
    today,               \* the calendar day (date.today() / CURRENT_DATE)
    inventory_items,     \* table inventory_items of the user, in row order
    user_recipe_history, \* table user_recipe_history: recipe ids cooked
    user_flavor_profile, \* table user_flavor_profile: <<>> or <<profile>>
    settings,            \* Settings: the three weights, in hundredths
    pc,                  \* position of the request in generate
    request,             \* max_per_tier and include_tier5 of the request
    flavor_profile,      \* local of generate
    inventory_expiry,    \* local of generate: ingredient_id -> expiry
    urgent_items,        \* local of generate
    tier_results,        \* local of generate: rows of TIER_QUERY
    row_idx,             \* loop position in "for row in tier_results"
    tiers,               \* local of generate: 1..5 -> list of ScoredRecipe
    classified,          \* tiers as they were before step 4 (sort and cap)
    adapter_log,         \* calls made to search_recipes_by_flavor
    failed_at,           \* where an exception was raised, "none" if none
    response,            \* what the endpoint returned
    probe                \* a direct call of one scoring function

vars == <<today, inventory_items, user_recipe_history, user_flavor_profile,
          settings, pc, request, flavor_profile, inventory_expiry,
          urgent_items, tier_results, row_idx, tiers, classified,
          adapter_log, failed_at, response, probe>>

db_vars == <<inventory_items, user_recipe_history, user_flavor_profile,
             settings>>

(***************************************************************************)
(* Bounds of the model                                                     *)
(***************************************************************************)
MaxDay == 1          \* midnight passes at most this many times
BigN == 200          \* requirements of the largest recipe of the catalogue
MaxProbeIds == 2     \* length of the id list of a direct scoring call

(***************************************************************************)
(* Program constants                                                       *)
(***************************************************************************)
ONE == 1000                  \* 1.0 in thousandths: round(., 3)
HORIZON_DAYS == 7            \* horizon_days default
MAX_PER_TIER_LE == 50        \* Query(le=50)
SPARSE_LIMIT == 5            \* total_1_to_4 < 5
MAX_MISSING == 3             \* missing_count <= 3, BETWEEN 1 AND 3
WEIGHT_EXPIRY == 45          \* 0.45
WEIGHT_FLAVOR == 35          \* 0.35
WEIGHT_FAMILIAR == 20        \* 0.20
NEUTRAL == 1                 \* 0.5 in halves: .get(axis, 0.5)

FLAVOR_AXES == <<"sweet", "salty", "sour", "bitter", "umami", "spicy">>

(***************************************************************************)
(* Generic helpers                                                         *)
(***************************************************************************)
Max(a, b) == IF a >= b THEN a ELSE b
Min(a, b) == IF a <= b THEN a ELSE b

RECURSIVE SumRange(_, _, _)
SumRange(s, lo, hi) ==
    IF lo > hi THEN 0
    ELSE IF lo = hi THEN s[lo]
    ELSE LET mid == (lo + hi) \div 2
         IN  SumRange(s, lo, mid) + SumRange(s, mid + 1, hi)

SumSeq(s) == SumRange(s, 1, Len(s))

Range(s) == {s[i] : i \in DOMAIN s}

\* n/d rounded to the nearest integer, ties to the even one (d > 0).
\* Python's round() rounds the binary double, which for a decimal tie falls
\* on either side; the fixed-point model takes the tie to even.
RoundHalfEven(n, d) ==
    LET q == n \div d
        r == n % d
    IN  IF 2 * r < d THEN q
        ELSE IF 2 * r > d THEN q + 1
        ELSE IF q % 2 = 0 THEN q ELSE q + 1

\* SQL ROUND(numeric, k): ties away from zero (n >= 0, d > 0).
RoundHalfUp(n, d) == (2 * n + d) \div (2 * d)

\* Python slice s[:n]
Slice(s, n) ==
    LET k == IF n >= 0 THEN Min(n, Len(s)) ELSE Max(0, Len(s) + n)
    IN  SubSeq(s, 1, k)

\* largest c in lo..hi with c*c*p <= x  (p > 0, lo*lo*p <= x)
RECURSIVE Bisect(_, _, _, _)
Bisect(lo, hi, p, x) ==
    IF lo >= hi THEN lo
    ELSE LET mid == (lo + hi + 1) \div 2
         IN  IF mid * mid * p <= x THEN Bisect(mid, hi, p, x)
             ELSE Bisect(lo, mid - 1, p, x)

(***************************************************************************)
(* scoring.py                                                              *)
(***************************************************************************)
\* A flavor axis value as it arrives from JSON: a number (in halves), a
\* non-numeric value, or no entry for the axis.
Num(v) == [kind |-> "num", v |-> v]
Str == [kind |-> "str", v |-> 0]
Absent == [kind |-> "absent", v |-> 0]

\* np.array([vectors.get(axis, 0.5) for axis in FLAVOR_AXES])
AxisVector(vectors) ==
    [i \in DOMAIN FLAVOR_AXES |->
        IF vectors[i].kind = "absent" THEN NEUTRAL ELSE vectors[i].v]

\* np.dot / np.linalg.norm raise on a non-numeric entry
FlavorRaises(recipe_vectors, user_profile) ==
    \E i \in DOMAIN FLAVOR_AXES :
        recipe_vectors[i].kind = "str" \/ user_profile[i].kind = "str"

Dot(a, b) == SumSeq([i \in DOMAIN a |-> a[i] * b[i]])

\* compute_expiry_urgency(recipe_ingredient_ids, user_inventory), evaluated
\* on the day now; the result in thousandths.
compute_expiry_urgency(recipe_ingredient_ids, user_inventory, now) ==
    LET matched == SelectSeq(recipe_ingredient_ids,
                             LAMBDA id : id \in DOMAIN user_inventory)
        urgencies == [i \in DOMAIN matched |->
                        Max(0, HORIZON_DAYS - (user_inventory[matched[i]] - now))]
    IN  IF matched = <<>> THEN 0
        ELSE RoundHalfEven(ONE * SumSeq(urgencies),
                           HORIZON_DAYS * Len(matched))

\* the cosine with 0.0 in place of 0.5 for a zero norm
compute_flavor_affinity_zero(recipe_vectors, user_profile) ==
    LET r_vec == AxisVector(recipe_vectors)
        u_vec == AxisVector(user_profile)
        dot == Dot(r_vec, u_vec)
        norm2 == Dot(r_vec, r_vec) * Dot(u_vec, u_vec)
        mag == Bisect(0, ONE, norm2, dot * dot * ONE * ONE)
    IN  IF norm2 > 0 THEN (IF dot >= 0 THEN mag ELSE 0 - mag)
        ELSE 0

\* compute_flavor_affinity(recipe_vectors, user_profile) for numeric
\* vectors: dot / norm truncated to thousandths, 0.5 when norm = 0.
compute_flavor_affinity(recipe_vectors, user_profile) ==
    LET r_vec == AxisVector(recipe_vectors)
        u_vec == AxisVector(user_profile)
        dot == Dot(r_vec, u_vec)
        norm2 == Dot(r_vec, r_vec) * Dot(u_vec, u_vec)
        mag == Bisect(0, ONE, norm2, dot * dot * ONE * ONE)
    IN  IF norm2 > 0 THEN (IF dot >= 0 THEN mag ELSE 0 - mag)
        ELSE ONE \div 2

\* the weighted sum without min(1.0, max(0.0, score))
relevance_score_unclamped(w, expiry_urgency, flavor_affinity, is_comfort) ==
    LET familiarity == IF is_comfort THEN ONE ELSE ONE \div 5
        score == w.WEIGHT_EXPIRY * expiry_urgency
                 + w.WEIGHT_FLAVOR * flavor_affinity
                 + w.WEIGHT_FAMILIAR * familiarity
    IN  RoundHalfEven(score, 100)

\* compute_relevance_score(expiry_urgency, flavor_affinity, is_comfort)
\* with the weights w of get_settings(), in hundredths.
relevance_score(w, expiry_urgency, flavor_affinity, is_comfort) ==
    LET familiarity == IF is_comfort THEN ONE ELSE ONE \div 5
        score == w.WEIGHT_EXPIRY * expiry_urgency
                 + w.WEIGHT_FLAVOR * flavor_affinity
                 + w.WEIGHT_FAMILIAR * familiarity
    IN  RoundHalfEven(Min(100 * ONE, Max(0, score)), 100)

compute_relevance_score(expiry_urgency, flavor_affinity, is_comfort) ==
    relevance_score(settings, expiry_urgency, flavor_affinity, is_comfort)

(***************************************************************************)
(* models/recommendation.py                                                *)
(***************************************************************************)
InUnit(x) == 0 <= x /\ x <= ONE

\* ScoredRecipe with the Field bounds left out
ScoredRecipeTierOnly(r) == r.tier \in 1..5

\* Field(ge=0.0, le=1.0) on the four scores, Tier(IntEnum) on tier
ScoredRecipeValid(r) ==
    /\ r.tier \in 1..5
    /\ InUnit(r.relevance_score)
    /\ InUnit(r.match_percentage)
    /\ InUnit(r.expiry_urgency)
    /\ InUnit(r.flavor_affinity)

ScoredRecipe(recipe_id, tier, relevance, match, missing, urg, aff, comfort) ==
    [recipe_id |-> recipe_id, tier |-> tier, relevance_score |-> relevance,
     match_percentage |-> match, missing_ingredients |-> missing,
     expiry_urgency |-> urg, flavor_affinity |-> aff, is_comfort |-> comfort]

\* the dict with the key of tier 5 left to step 5
EmptyTiersUpTo4 == [t \in 1..4 |-> <<>>]

\* tiers = {1: [], 2: [], 3: [], 4: [], 5: []}
EmptyTiers == [t \in 1..5 |-> <<>>]

(***************************************************************************)
(* The database the engine reads.  Tables recipes and recipe_ingredients   *)
(* hold a fixed catalogue; the user's tables are variables.                *)
(***************************************************************************)
MILK == 1
CARROT == 2
EGG == 3
RICE == 4
TOFU == 5
NORI == 9

Vec6(a, b, c, d, e, f) == <<Num(a), Num(b), Num(c), Num(d), Num(e), Num(f)>>
NoAxes == [i \in DOMAIN FLAVOR_AXES |-> Absent]

\* recipes: id and flavor_vectors (null, or one entry per axis)
Recipe(id, isnull, axes) ==
    [id |-> id, flavor_null |-> isnull, flavor_vectors |-> axes]

recipes ==
    << Recipe(1, FALSE, Vec6(1, 1, 1, 1, 1, 1)),       \* all axes 0.5
       Recipe(2, FALSE, <<Num(2), Absent, Absent, Absent, Absent, Absent>>),
       Recipe(3, FALSE, Vec6(0, 0, 0, 0, 0, 0)),       \* zero magnitude
       Recipe(4, TRUE, NoAxes),                        \* flavor_vectors NULL
       Recipe(5, FALSE, Vec6(0, 0, 0, 0, 0, 2)),
       Recipe(6, FALSE, Vec6(-2, 0, 0, 0, 0, 2)),      \* an axis below 0
       Recipe(7, FALSE, Vec6(2, 0, 0, 0, 0, 0)),
       Recipe(8, FALSE, Vec6(1, 1, 1, 1, 1, 1)),
       Recipe(9, FALSE, <<Str, Num(1), Num(1), Num(1), Num(1), Num(1)>>) >>

RecipeIds == {recipes[i].id : i \in DOMAIN recipes}

Req(r, ing, opt) == [recipe_id |-> r, ingredient_id |-> ing, is_optional |-> opt]

\* recipe_ingredients, in row order
recipe_ingredients ==
    << Req(1, MILK, FALSE), Req(1, CARROT, FALSE), Req(1, EGG, TRUE),
       Req(2, MILK, FALSE),
       Req(3, CARROT, FALSE), Req(3, EGG, FALSE),
       Req(4, EGG, FALSE), Req(4, RICE, FALSE), Req(4, MILK, TRUE),
       Req(5, MILK, FALSE), Req(5, CARROT, FALSE), Req(5, EGG, FALSE),
       Req(5, RICE, FALSE),
       Req(6, TOFU, FALSE), Req(6, 6, FALSE), Req(6, 7, FALSE),
       Req(6, 8, FALSE),
       Req(8, MILK, TRUE),
       Req(9, NORI, FALSE), Req(9, 10, FALSE), Req(9, 11, FALSE),
       Req(9, 12, FALSE) >>
    \o [i \in 1..BigN |-> Req(7, 100 + i, FALSE)]

Lot(ing, exp, qty) ==
    [ingredient_id |-> ing, computed_expiry |-> exp, quantity |-> qty]

\* A lot counts iff computed_expiry >= CURRENT_DATE AND quantity > 0
ValidLot(lot, now) == lot.computed_expiry >= now /\ lot.quantity > 0

(***************************************************************************)
(* TIER_QUERY                                                              *)
(***************************************************************************)
\* CTE user_inventory: DISTINCT ingredient_id of the valid lots
user_inventory(items, now) ==
    {items[i].ingredient_id : i \in {j \in DOMAIN items : ValidLot(items[j], now)}}

\* the rows of a recipe whether optional or not
RequiredInAll(table) ==
    [r \in RecipeIds |-> SelectSeq(table, LAMBDA ri : ri.recipe_id = r)]

\* per recipe, the rows of a recipe_ingredients table with
\* is_optional = FALSE
RequiredIn(table) ==
    [r \in RecipeIds |->
        SelectSeq(table,
                  LAMBDA ri : ri.recipe_id = r /\ ri.is_optional = FALSE)]

\* the same for the catalogue
RequiredOf == RequiredIn(recipe_ingredients)

RequiredRows(r) == RequiredOf[r]

\* the CASE with the missing-count branches tested first
TierCaseSwapped(match_pct, missing_count, is_comfort) ==
    IF missing_count >= 1 /\ missing_count <= MAX_MISSING /\ is_comfort THEN 3
    ELSE IF missing_count >= 1 /\ missing_count <= MAX_MISSING /\ ~is_comfort THEN 4
    ELSE IF match_pct = 100 /\ is_comfort THEN 1
    ELSE IF match_pct = 100 /\ ~is_comfort THEN 2
    ELSE 0

\* the CASE without its tests of uh.recipe_id
TierCaseIgnoringHistory(match_pct, missing_count, is_comfort) ==
    IF match_pct = 100 THEN 1
    ELSE IF missing_count >= 1 /\ missing_count <= MAX_MISSING THEN 3
    ELSE 0

\* CASE ... END AS tier; 0 stands for NULL
TierCase(match_pct, missing_count, is_comfort) ==
    IF match_pct = 100 /\ is_comfort THEN 1
    ELSE IF match_pct = 100 /\ ~is_comfort THEN 2
    ELSE IF missing_count >= 1 /\ missing_count <= MAX_MISSING /\ is_comfort THEN 3
    ELSE IF missing_count >= 1 /\ missing_count <= MAX_MISSING /\ ~is_comfort THEN 4
    ELSE 0

\* CTE recipe_match joined with user_history: the row of recipe rec, its
\* required rows given by the function required
MatchRowWith(required, rec, items, history, now) ==
    LET ri == required[rec.id]
        ui == user_inventory(items, now)
        matched == SelectSeq(ri, LAMBDA x : x.ingredient_id \in ui)
        missing == SelectSeq(ri, LAMBDA x : x.ingredient_id \notin ui)
        match_pct == RoundHalfUp(100 * Len(matched), Len(ri))
        is_comfort == rec.id \in history
    IN  [recipe_id |-> rec.id,
         flavor_null |-> rec.flavor_null,
         flavor_vectors |-> rec.flavor_vectors,
         match_pct |-> match_pct,
         missing_count |-> Len(ri) - Len(matched),
         missing_names |-> [i \in DOMAIN missing |-> missing[i].ingredient_id],
         is_comfort |-> is_comfort,
         tier |-> TierCase(match_pct, Len(ri) - Len(matched), is_comfort)]

MatchRow(rec, items, history, now) ==
    MatchRowWith(RequiredOf, rec, items, history, now)

\* FROM recipe_match ... WHERE rm.missing_count <= 3; a recipe without a
\* required ingredient has no group in recipe_match
QueryRowsWith(required, items, history, now) ==
    LET grouped == SelectSeq(recipes, LAMBDA rec : required[rec.id] # <<>>)
        rows == [i \in DOMAIN grouped |->
                    MatchRowWith(required, grouped[i], items, history, now)]
    IN  SelectSeq(rows, LAMBDA row : row.missing_count <= MAX_MISSING)

QueryRows(items, history, now) ==
    QueryRowsWith(RequiredOf, items, history, now)

\* ORDER BY tier ASC, rm.match_pct DESC
OrderedBefore(a, b) ==
    \/ a.tier < b.tier
    \/ a.tier = b.tier /\ a.match_pct > b.match_pct

Reverse(s) == [i \in DOMAIN s |-> s[Len(s) + 1 - i]]

\* insert x behind the rows that sort before it or rank the same
RECURSIVE InsertRow(_, _)
InsertRow(sorted, x) ==
    IF sorted = <<>> THEN <<x>>
    ELSE IF OrderedBefore(x, Head(sorted)) THEN <<x>> \o sorted
    ELSE <<Head(sorted)>> \o InsertRow(Tail(sorted), x)

RECURSIVE OrderRows(_)
OrderRows(rows) ==
    IF rows = <<>> THEN <<>>
    ELSE InsertRow(OrderRows(SubSeq(rows, 1, Len(rows) - 1)), rows[Len(rows)])

\* The result of TIER_QUERY.  SQL leaves the order of rows of the same rank
\* open; scan_back chooses between the two scan directions.
TIER_QUERY(items, history, now, scan_back) ==
    LET rows == QueryRows(items, history, now)
    IN  OrderRows(IF scan_back THEN Reverse(rows) ELSE rows)

(***************************************************************************)
(* RecommendationEngine: private helpers                                   *)
(***************************************************************************)
NeutralProfile == Vec6(NEUTRAL, NEUTRAL, NEUTRAL, NEUTRAL, NEUTRAL, NEUTRAL)

\* _get_flavor_profile with zeros for a user without a stored row
get_flavor_profile_zeros(stored) ==
    IF stored # <<>> THEN stored[1] ELSE Vec6(0, 0, 0, 0, 0, 0)

\* _get_flavor_profile: the stored row, or the neutral profile
get_flavor_profile(stored) ==
    IF stored # <<>> THEN stored[1] ELSE NeutralProfile

\* the loop with every row overwriting the entry of its ingredient
RECURSIVE KeepLatestRow(_, _)
KeepLatestRow(rows, current) ==
    IF rows = <<>> THEN current
    ELSE KeepLatestRow(Tail(rows), Head(rows).computed_expiry)

\* the loop of _get_inventory_expiry_map as it acts on one ingredient:
\* the first row sets the entry, a later row replaces it iff it is sooner
RECURSIVE KeepSoonest(_, _)
KeepSoonest(rows, current) ==
    IF rows = <<>> THEN current
    ELSE KeepSoonest(Tail(rows),
                     IF Head(rows).computed_expiry < current
                     THEN Head(rows).computed_expiry ELSE current)

ExpiryMapLoop(rows) ==
    [ing_id \in {rows[i].ingredient_id : i \in DOMAIN rows} |->
        LET mine == SelectSeq(rows, LAMBDA row : row.ingredient_id = ing_id)
        IN  KeepSoonest(Tail(mine), Head(mine).computed_expiry)]

\* _get_inventory_expiry_map: .gte("computed_expiry", today).gt("quantity", 0)
get_inventory_expiry_map(items, now) ==
    ExpiryMapLoop(SelectSeq(items, LAMBDA lot : ValidLot(lot, now)))

\* _get_urgent_items: .gte("computed_expiry", today).lte("computed_expiry",
\* today).gt("quantity", 0), one UrgentItem per row
get_urgent_items(items, now) ==
    LET rows == SelectSeq(items, LAMBDA lot :
                    /\ lot.computed_expiry >= now
                    /\ lot.computed_expiry <= now
                    /\ lot.quantity > 0)
    IN  [i \in DOMAIN rows |->
            [ingredient_name |-> rows[i].ingredient_id,
             days_remaining |-> rows[i].computed_expiry - now,
             quantity |-> rows[i].quantity]]

\* _get_recipe_ingredient_ids: .eq("recipe_id", ...).eq("is_optional", False)
get_recipe_ingredient_ids_with(required, recipe_id) ==
    LET rows == required[recipe_id]
    IN  [i \in DOMAIN rows |-> rows[i].ingredient_id]

get_recipe_ingredient_ids(recipe_id) ==
    get_recipe_ingredient_ids_with(RequiredOf, recipe_id)

\* the ScoredRecipe that the loop body of generate builds for a row
ScoreOfWith(required, row, profile, expiry_map, now) ==
    LET recipe_ing_ids == get_recipe_ingredient_ids_with(required, row.recipe_id)
        expiry_urg == compute_expiry_urgency(recipe_ing_ids, expiry_map, now)
        flavor_aff == compute_flavor_affinity(
                        IF row.flavor_null THEN NoAxes ELSE row.flavor_vectors,
                        profile)
        relevance == compute_relevance_score(expiry_urg, flavor_aff,
                                             row.is_comfort)
    IN  ScoredRecipe(row.recipe_id, row.tier, relevance, 10 * row.match_pct,
                     row.missing_names, expiry_urg, flavor_aff, row.is_comfort)

ScoreOf(row, profile, expiry_map, now) ==
    ScoreOfWith(RequiredOf, row, profile, expiry_map, now)

\* sorted(list, key=relevance_score) with reverse=True forgotten
RECURSIVE InsertAscending(_, _)
InsertAscending(sorted, x) ==
    IF sorted = <<>> THEN <<x>>
    ELSE IF x.relevance_score < Head(sorted).relevance_score
         THEN <<x>> \o sorted
         ELSE <<Head(sorted)>> \o InsertAscending(Tail(sorted), x)

RECURSIVE SortedAscending(_)
SortedAscending(list) ==
    IF list = <<>> THEN <<>>
    ELSE InsertAscending(SortedAscending(SubSeq(list, 1, Len(list) - 1)),
                         list[Len(list)])

\* an insertion that puts a recipe in front of those of equal score
RECURSIVE InsertScoredTiesFirst(_, _)
InsertScoredTiesFirst(sorted, x) ==
    IF sorted = <<>> THEN <<x>>
    ELSE IF x.relevance_score >= Head(sorted).relevance_score
         THEN <<x>> \o sorted
         ELSE <<Head(sorted)>> \o InsertScoredTiesFirst(Tail(sorted), x)

\* sorted(list, key=relevance_score, reverse=True): stable, descending
RECURSIVE InsertScored(_, _)
InsertScored(sorted, x) ==
    IF sorted = <<>> THEN <<x>>
    ELSE IF x.relevance_score > Head(sorted).relevance_score
         THEN <<x>> \o sorted
         ELSE <<Head(sorted)>> \o InsertScored(Tail(sorted), x)

RECURSIVE SortedByRelevance(_)
SortedByRelevance(list) ==
    IF list = <<>> THEN <<>>
    ELSE InsertScored(SortedByRelevance(SubSeq(list, 1, Len(list) - 1)),
                      list[Len(list)])

\* step 4 with the slice taken before the sort
SortAndCapTiersCutFirst(ts, max_per_tier) ==
    [t \in DOMAIN ts |-> SortedByRelevance(Slice(ts[t], max_per_tier))]

\* step 4 of generate
SortAndCapTiers(ts, max_per_tier) ==
    [t \in DOMAIN ts |-> Slice(SortedByRelevance(ts[t]), max_per_tier)]

\* sum(len(v) for k, v in tiers.items() if k <= 4)
Total1To4(ts) == Len(ts[1]) + Len(ts[2]) + Len(ts[3]) + Len(ts[4])

\* step 5 with <= in place of <
Tier5TriggeredOffByOne(include_tier5, ts) ==
    include_tier5 /\ Total1To4(ts) <= SPARSE_LIMIT

\* step 5 without the test of include_tier5
Tier5TriggeredAnyway(include_tier5, ts) ==
    Total1To4(ts) < SPARSE_LIMIT

\* the condition of step 5
Tier5Triggered(include_tier5, ts) ==
    include_tier5 /\ Total1To4(ts) < SPARSE_LIMIT

\* one row of the adapter's answer; similarity in ten-thousandths
Hit(id, sim) == [recipe_id |-> id, has_similarity |-> TRUE, similarity |-> sim]
HitWithoutSimilarity(id) ==
    [recipe_id |-> id, has_similarity |-> FALSE, similarity |-> 0]

\* _tier5_search with the weighted formula applied to the similarity
Tier5RecipesComposite(rows) ==
    [i \in DOMAIN rows |->
        LET sim == IF rows[i].has_similarity THEN rows[i].similarity
                   ELSE 5 * ONE
            shown == RoundHalfEven(sim, 10)
        IN  ScoredRecipe(rows[i].recipe_id, 5,
                         compute_relevance_score(0, shown, FALSE),
                         0, <<>>, 0, shown, FALSE)]

\* the ScoredRecipe list of _tier5_search for the adapter's rows
Tier5Recipes(rows) ==
    [i \in DOMAIN rows |->
        LET sim == IF rows[i].has_similarity THEN rows[i].similarity
                   ELSE 5 * ONE
            shown == RoundHalfEven(sim, 10)
        IN  ScoredRecipe(rows[i].recipe_id, 5, shown, 0, <<>>, 0, shown, FALSE)]

\* search_recipes_by_flavor(query_embedding, dietary_filter, match_count):
\* what it may answer, before match_count is applied
AdapterAnswers ==
    { <<>>,
      <<Hit(1, 9876), Hit(7, 5000)>>,
      <<Hit(7, 5000), Hit(1, 9876)>>,
      <<Hit(3, 12000)>>,
      <<HitWithoutSimilarity(2)>> }

\* at most match_count rows come back; a negative count is an error
AdapterRows(answer, match_count) == SubSeq(answer, 1, Min(match_count, Len(answer)))

(***************************************************************************)
(* Initial states: the tables of one user                                  *)
(***************************************************************************)
MilkLots == {<<>>, <<Lot(MILK, 1, 1)>>, <<Lot(MILK, 0, 1)>>}
CarrotLots == {<<>>, <<Lot(CARROT, 5, 1)>>, <<Lot(CARROT, -1, 1)>>}
EggLots == {<<>>, <<Lot(EGG, 3, 1), Lot(EGG, 1, 2), Lot(EGG, 0, 0)>>}
RiceLots == {<<>>, <<Lot(RICE, 9, 1)>>}
Pantry == [i \in 1..(BigN - 1) |-> Lot(100 + i, 30, 1)]

Inventories ==
    {a \o b \o c : a \in MilkLots, b \in CarrotLots, c \in EggLots}
    \cup {a \o <<Lot(CARROT, 5, 1)>> \o c \o d :
            a \in MilkLots, c \in EggLots, d \in RiceLots \ {<<>>}}
    \cup {Pantry, Pantry \o <<Lot(MILK, 1, 1)>>,
          Pantry \o <<Lot(MILK, 1, 1), Lot(CARROT, 5, 1), Lot(EGG, 3, 1),
                      Lot(RICE, 9, 1)>>}
    \cup {<<Lot(TOFU, 2, 1)>>,
          <<Lot(MILK, 1, 1), Lot(CARROT, 5, 1), Lot(TOFU, 2, 1)>>,
          <<Lot(MILK, 1, 1), Lot(NORI, 4, 1)>>}

Histories == {{}, {1, 3, 7}}

StoredProfiles == {<<>>, <<Vec6(2, 1, 1, 1, 1, 0)>>}

DefaultSettings ==
    [WEIGHT_EXPIRY |-> WEIGHT_EXPIRY, WEIGHT_FLAVOR |-> WEIGHT_FLAVOR,
     WEIGHT_FAMILIAR |-> WEIGHT_FAMILIAR]

SettingsChoices ==
    {DefaultSettings,
     [WEIGHT_EXPIRY |-> 200, WEIGHT_FLAVOR |-> -35, WEIGHT_FAMILIAR |-> 20]}

MaxPerTierInputs == {-1, 0, 1, MAX_PER_TIER_LE, MAX_PER_TIER_LE + 1}

NoResponse ==
    [status |-> 0, tiers |-> <<>>, urgent_items |-> <<>>, total_recipes |-> 0]

ErrorResponse(code) ==
    [status |-> code, tiers |-> <<>>, urgent_items |-> <<>>, total_recipes |-> 0]

NoProbe == [fn |-> "none"]

IdleRequest ==
    /\ pc = "idle"
    /\ request = [max_per_tier |-> 10, include_tier5 |-> TRUE]
    /\ flavor_profile = NeutralProfile
    /\ inventory_expiry = <<>>
    /\ urgent_items = <<>>
    /\ tier_results = <<>>
    /\ row_idx = 1
    /\ tiers = EmptyTiers
    /\ classified = EmptyTiers
    /\ adapter_log = <<>>
    /\ failed_at = "none"
    /\ response = NoResponse

Init ==
    /\ today = 0
    /\ inventory_items \in Inventories
    /\ user_recipe_history \in Histories
    /\ user_flavor_profile \in StoredProfiles
    /\ settings \in SettingsChoices
    /\ IdleRequest
    /\ probe = NoProbe

(***************************************************************************)
(* The clock: midnight passes between two reads of the date by a request  *)
(***************************************************************************)
Tick ==
    /\ today < MaxDay
    /\ pc \in {"urgent", "tier_query", "score"}
    /\ today' = today + 1
    /\ UNCHANGED <<db_vars, pc, request, flavor_profile, inventory_expiry,
                   urgent_items, tier_results, row_idx, tiers, classified,
                   adapter_log, failed_at, response, probe>>

(***************************************************************************)
(* POST /api/v1/recommend and RecommendationEngine.generate                *)
(***************************************************************************)
\* the failure is swallowed and an empty result returned in its place
RaiseSwallowed(where) ==
    /\ failed_at' = where
    /\ response' = [status |-> 200, tiers |-> EmptyTiers,
                    urgent_items |-> <<>>, total_recipes |-> 0]
    /\ pc' = "done"

\* an exception leaves generate; the endpoint turns it into HTTP 500
Raise(where) ==
    /\ failed_at' = where
    /\ response' = ErrorResponse(500)
    /\ pc' = "done"

\* get_recommendations: Query(le=50) rejects the request or generate starts
GetRecommendations(max_per_tier, include_tier5) ==
    /\ pc = "idle"
    /\ request' = [max_per_tier |-> max_per_tier,
                   include_tier5 |-> include_tier5]
    /\ IF max_per_tier <= MAX_PER_TIER_LE
       THEN pc' = "profile" /\ response' = response
       ELSE pc' = "done" /\ response' = ErrorResponse(422)
    /\ UNCHANGED <<today, db_vars, flavor_profile, inventory_expiry,
                   urgent_items, tier_results, row_idx, tiers, classified,
                   adapter_log, failed_at, probe>>

\* step 1a
GetFlavorProfile ==
    /\ pc = "profile"
    /\ flavor_profile' = get_flavor_profile(user_flavor_profile)
    /\ pc' = "inventory"
    /\ UNCHANGED <<today, db_vars, request, inventory_expiry, urgent_items,
                   tier_results, row_idx, tiers, classified, adapter_log,
                   failed_at, response, probe>>

\* step 1b
GetInventoryExpiryMap ==
    /\ pc = "inventory"
    /\ inventory_expiry' = get_inventory_expiry_map(inventory_items, today)
    /\ pc' = "urgent"
    /\ UNCHANGED <<today, db_vars, request, flavor_profile, urgent_items,
                   tier_results, row_idx, tiers, classified, adapter_log,
                   failed_at, response, probe>>

\* step 1c
GetUrgentItems ==
    /\ pc = "urgent"
    /\ urgent_items' = get_urgent_items(inventory_items, today)
    /\ pc' = "tier_query"
    /\ UNCHANGED <<today, db_vars, request, flavor_profile, inventory_expiry,
                   tier_results, row_idx, tiers, classified, adapter_log,
                   failed_at, response, probe>>

\* step 2: _execute_tier_query
ExecuteTierQuery ==
    /\ pc = "tier_query"
    /\ \E scan_back \in BOOLEAN :
          tier_results' = TIER_QUERY(inventory_items, user_recipe_history,
                                     today, scan_back)
    /\ row_idx' = 1
    /\ tiers' = EmptyTiers
    /\ pc' = "score"
    /\ UNCHANGED <<today, db_vars, request, flavor_profile, inventory_expiry,
                   urgent_items, classified, adapter_log, failed_at,
                   response, probe>>

\* an upstream fetch raises: the profile, the expiry map, the urgent items,
\* the tier query, or the ingredient ids of the row at hand
UpstreamFails ==
    /\ \/ pc \in {"profile", "inventory", "urgent", "tier_query"}
       \/ pc = "score" /\ row_idx <= Len(tier_results)
                       /\ tier_results[row_idx].tier # 0
    /\ Raise(IF pc = "score" THEN "ingredients" ELSE pc)
    /\ UNCHANGED <<today, db_vars, request, flavor_profile, inventory_expiry,
                   urgent_items, tier_results, row_idx, tiers, classified,
                   adapter_log, probe>>

\* step 3: one pass of "for row in tier_results"
ScoreRow ==
    /\ pc = "score"
    /\ row_idx <= Len(tier_results)
    /\ LET row == tier_results[row_idx]
           profile == flavor_profile
           scored == ScoreOf(row, profile, inventory_expiry, today)
       IN  IF row.tier = 0
           THEN /\ row_idx' = row_idx + 1
                /\ UNCHANGED <<tiers, pc, failed_at, response>>
           ELSE IF FlavorRaises(IF row.flavor_null THEN NoAxes
                                ELSE row.flavor_vectors, profile)
           THEN Raise("scoring") /\ UNCHANGED <<row_idx, tiers>>
           ELSE IF ~ScoredRecipeValid(scored)
           THEN Raise("validation") /\ UNCHANGED <<row_idx, tiers>>
           ELSE /\ tiers' = [tiers EXCEPT ![row.tier] = Append(@, scored)]
                /\ row_idx' = row_idx + 1
                /\ UNCHANGED <<pc, failed_at, response>>
    /\ UNCHANGED <<today, db_vars, request, flavor_profile, inventory_expiry,
                   urgent_items, tier_results, classified, adapter_log, probe>>

\* step 4: sort each tier and cap it
SortAndCap ==
    /\ pc = "score"
    /\ row_idx > Len(tier_results)
    /\ classified' = tiers
    /\ tiers' = SortAndCapTiers(tiers, request.max_per_tier)
    /\ pc' = "tier5"
    /\ UNCHANGED <<today, db_vars, request, flavor_profile, inventory_expiry,
                   urgent_items, tier_results, row_idx, adapter_log,
                   failed_at, response, probe>>

\* the axis list written out in _tier5_search
TIER5_AXES == <<"sweet", "salty", "sour", "bitter", "umami", "spicy">>

\* the place of an axis in a flavor dict of the model
AxisIndex(axis) == CHOOSE i \in DOMAIN FLAVOR_AXES : FLAVOR_AXES[i] = axis

\* the query vector with the axes taken in alphabetical order
query_vector_sorted(profile) ==
    LET axes == <<"bitter", "salty", "sour", "spicy", "sweet", "umami">>
    IN  [k \in DOMAIN axes |->
            LET entry == profile[AxisIndex(axes[k])]
            IN  IF entry.kind = "absent" THEN NEUTRAL ELSE entry.v]

\* query_vector = [flavor_profile.get(axis, 0.5) for axis in [...]]
query_vector(profile) ==
    [k \in DOMAIN TIER5_AXES |->
        LET entry == profile[AxisIndex(TIER5_AXES[k])]
        IN  IF entry.kind = "absent" THEN NEUTRAL ELSE entry.v]

\* the rpc call of _tier5_search and what came of it
AdapterCall(limit, outcome, rows) ==
    [query_embedding |-> query_vector(flavor_profile), match_count |-> limit,
     outcome |-> outcome, rows |-> rows]

\* step 5 when the search is not triggered
SkipTier5 ==
    /\ pc = "tier5"
    /\ ~Tier5Triggered(request.include_tier5, tiers)
    /\ pc' = "respond"
    /\ UNCHANGED <<today, db_vars, request, flavor_profile, inventory_expiry,
                   urgent_items, tier_results, row_idx, tiers, classified,
                   adapter_log, failed_at, response, probe>>

\* step 5: _tier5_search, the adapter answers
Tier5Search ==
    /\ pc = "tier5"
    /\ Tier5Triggered(request.include_tier5, tiers)
    /\ request.max_per_tier >= 0
    /\ \E answer \in AdapterAnswers :
          LET rows == AdapterRows(answer, request.max_per_tier)
              found == Tier5Recipes(rows)
          IN  /\ adapter_log' = Append(adapter_log,
                                  AdapterCall(request.max_per_tier, "ok", rows))
              /\ IF \A i \in DOMAIN found : ScoredRecipeValid(found[i])
                 THEN /\ tiers' = [tiers EXCEPT ![5] = found]
                      /\ pc' = "respond"
                      /\ UNCHANGED <<failed_at, response>>
                 ELSE Raise("tier5_validation") /\ UNCHANGED tiers
    /\ UNCHANGED <<today, db_vars, request, flavor_profile, inventory_expiry,
                   urgent_items, tier_results, row_idx, classified, probe>>

\* step 5: _tier5_search, the rpc raises (adapter down, or match_count < 0)
Tier5SearchFails ==
    /\ pc = "tier5"
    /\ Tier5Triggered(request.include_tier5, tiers)
    /\ adapter_log' = Append(adapter_log,
                             AdapterCall(request.max_per_tier, "error", <<>>))
    /\ Raise("adapter")
    /\ UNCHANGED <<today, db_vars, request, flavor_profile, inventory_expiry,
                   urgent_items, tier_results, row_idx, tiers, classified,
                   probe>>

\* the return of generate with the total taken before step 5
RespondCountedEarly ==
    /\ pc = "respond"
    /\ response' = [status |-> 200, tiers |-> tiers,
                    urgent_items |-> urgent_items,
                    total_recipes |-> Total1To4(tiers)]
    /\ pc' = "done"
    /\ UNCHANGED <<today, db_vars, request, flavor_profile, inventory_expiry,
                   urgent_items, tier_results, row_idx, tiers, classified,
                   adapter_log, failed_at, probe>>

\* the return of generate, passed on by the endpoint
Respond ==
    /\ pc = "respond"
    /\ response' = [status |-> 200, tiers |-> tiers,
                    urgent_items |-> urgent_items,
                    total_recipes |-> SumSeq([t \in DOMAIN tiers |-> Len(tiers[t])])]
    /\ pc' = "done"
    /\ UNCHANGED <<today, db_vars, request, flavor_profile, inventory_expiry,
                   urgent_items, tier_results, row_idx, tiers, classified,
                   adapter_log, failed_at, probe>>

Next ==
    \/ Tick
    \/ \E m \in MaxPerTierInputs, inc \in BOOLEAN : GetRecommendations(m, inc)
    \/ GetFlavorProfile
    \/ GetInventoryExpiryMap
    \/ GetUrgentItems
    \/ ExecuteTierQuery
    \/ UpstreamFails
    \/ ScoreRow
    \/ SortAndCap
    \/ SkipTier5
    \/ Tier5Search
    \/ Tier5SearchFails
    \/ Respond

Spec == Init /\ [][Next]_vars

(***************************************************************************)
(* Direct calls of the scoring functions, on inputs that generate need not *)
(* produce                                                                 *)
(***************************************************************************)
ProbeIngredients == {MILK, CARROT, EGG}
ProbeExpiries == {-2, 0, 1, 5, 7, 9}       \* days from today
ProbeIdLists ==
    UNION {[1..n -> ProbeIngredients] : n \in 0..MaxProbeIds}
ProbeInventories ==
    UNION {[have -> ProbeExpiries] : have \in SUBSET {MILK, CARROT}}
ProbeScores == {-500, 0, 286, 571, 1000, 1143}

Probe(fn, ids, inv, urg, aff, comfort) ==
    [fn |-> fn, ids |-> ids, inv |-> inv, expiry_urgency |-> urg,
     flavor_affinity |-> aff, is_comfort |-> comfort, done |-> FALSE,
     out |-> 0]

ProbeInputs ==
    {Probe("compute_expiry_urgency", ids, inv, 0, 0, FALSE) :
        ids \in ProbeIdLists, inv \in ProbeInventories}
    \cup {Probe("compute_relevance_score", <<>>, <<>>, urg, aff, comfort) :
        urg \in ProbeScores, aff \in ProbeScores, comfort \in BOOLEAN}

InitScoring ==
    /\ today = 0
    /\ inventory_items = <<>>
    /\ user_recipe_history = {}
    /\ user_flavor_profile = <<>>
    /\ settings \in SettingsChoices
    /\ IdleRequest
    /\ probe \in ProbeInputs

CallExpiryUrgency ==
    /\ probe.fn = "compute_expiry_urgency"
    /\ ~probe.done
    /\ probe' = [probe EXCEPT
                   !.out = compute_expiry_urgency(probe.ids, probe.inv, today),
                   !.done = TRUE]
    /\ UNCHANGED <<today, db_vars, pc, request, flavor_profile,
                   inventory_expiry, urgent_items, tier_results, row_idx,
                   tiers, classified, adapter_log, failed_at, response>>

CallRelevanceScore ==
    /\ probe.fn = "compute_relevance_score"
    /\ ~probe.done
    /\ probe' = [probe EXCEPT
                   !.out = compute_relevance_score(probe.expiry_urgency,
                               probe.flavor_affinity, probe.is_comfort),
                   !.done = TRUE]
    /\ UNCHANGED <<today, db_vars, pc, request, flavor_profile,
                   inventory_expiry, urgent_items, tier_results, row_idx,
                   tiers, classified, adapter_log, failed_at, response>>

NextScoring == CallExpiryUrgency \/ CallRelevanceScore

SpecScoring == InitScoring /\ [][NextScoring]_vars

(***************************************************************************)
(* The tier query and the scoring loop read a recipe_ingredients table in  *)
(* which the optional requirements of one recipe were changed              *)
(***************************************************************************)
MaxAdded == 2
OptionalRecipes == {1, 2, 3, 4, 5, 8}
OptionalIngredients == {MILK, EGG, TOFU}
AddedLists == UNION {[1..n -> OptionalIngredients] : n \in 0..MaxAdded}

\* recipe_ingredients with optional rows of recipe r added in front and,
\* if dropped, its optional rows of the catalogue removed
ChangedTable(r, added, dropped) ==
    [i \in DOMAIN added |-> Req(r, added[i], TRUE)]
    \o SelectSeq(recipe_ingredients,
                 LAMBDA ri : ~(dropped /\ ri.recipe_id = r /\ ri.is_optional))

\* steps 1 to 3 of generate as they act on recipe r: the ScoredRecipe
\* appended for it, or nothing when the query has no row for it
Reported(required, r, items, history, profile, now) ==
    LET rows == SelectSeq(QueryRowsWith(required, items, history, now),
                          LAMBDA row : row.recipe_id = r /\ row.tier # 0)
        expiry_map == get_inventory_expiry_map(items, now)
    IN  [i \in DOMAIN rows |->
            ScoreOfWith(required, rows[i], profile, expiry_map, now)]

OptionalProbe(r, added, dropped) ==
    [fn |-> "optional", recipe_id |-> r, added |-> added,
     dropped |-> dropped, done |-> FALSE, base |-> <<>>, variant |-> <<>>]

InitOptional ==
    /\ today = 0
    /\ inventory_items \in Inventories
    /\ user_recipe_history \in Histories
    /\ user_flavor_profile = <<>>
    /\ settings = DefaultSettings
    /\ IdleRequest
    /\ probe \in {OptionalProbe(r, added, dropped) :
                    r \in OptionalRecipes, added \in AddedLists,
                    dropped \in BOOLEAN}

\* the same user asks against the catalogue and against the changed table
CallWithChangedTable ==
    /\ ~probe.done
    /\ probe' = [probe EXCEPT
                   !.base = Reported(RequiredOf, probe.recipe_id,
                                inventory_items, user_recipe_history,
                                get_flavor_profile(user_flavor_profile), today),
                   !.variant = Reported(
                                RequiredIn(ChangedTable(probe.recipe_id,
                                               probe.added, probe.dropped)),
                                probe.recipe_id,
                                inventory_items, user_recipe_history,
                                get_flavor_profile(user_flavor_profile), today),
                   !.done = TRUE]
    /\ UNCHANGED <<today, db_vars, pc, request, flavor_profile,
                   inventory_expiry, urgent_items, tier_results, row_idx,
                   tiers, classified, adapter_log, failed_at, response>>

NextOptional == CallWithChangedTable

SpecOptional == InitOptional /\ [][NextOptional]_vars

(***************************************************************************)
(* The same request made twice, one call after the other, while the        *)
(* tables, the weights and the date stay as they are                       *)
(***************************************************************************)
TwiceInventories ==
    {<<>>,
     <<Lot(MILK, 1, 1), Lot(CARROT, 5, 1)>>,
     <<Lot(MILK, 0, 1), Lot(CARROT, 5, 1), Lot(EGG, 3, 1), Lot(EGG, 1, 2),
       Lot(EGG, 0, 0), Lot(RICE, 9, 1)>>}

\* what the client keeps of the first call: its response, and the rows the
\* adapter answered with
FirstCall(resp, log) == [fn |-> "first", response |-> resp, adapter_log |-> log]

InitTwice ==
    /\ today = 0
    /\ inventory_items \in TwiceInventories
    /\ user_recipe_history \in Histories
    /\ user_flavor_profile \in StoredProfiles
    /\ settings = DefaultSettings
    /\ IdleRequest
    /\ probe = NoProbe

\* the endpoint is called again with the same arguments: a new engine
\* object and a new activation of generate, which assigns each of its
\* locals before reading it
CallAgain ==
    /\ pc = "done"
    /\ response.status = 200
    /\ probe = NoProbe
    /\ probe' = FirstCall(response, adapter_log)
    /\ pc' = "profile"
    /\ response' = NoResponse
    /\ adapter_log' = <<>>
    /\ UNCHANGED <<today, db_vars, request, flavor_profile, inventory_expiry,
                   urgent_items, tier_results, row_idx, tiers, classified,
                   failed_at>>

NextTwice ==
    \/ \E m \in MaxPerTierInputs, inc \in BOOLEAN : GetRecommendations(m, inc)
    \/ GetFlavorProfile
    \/ GetInventoryExpiryMap
    \/ GetUrgentItems
    \/ ExecuteTierQuery
    \/ UpstreamFails
    \/ ScoreRow
    \/ SortAndCap
    \/ SkipTier5
    \/ Tier5Search
    \/ Tier5SearchFails
    \/ Respond
    \/ CallAgain

SpecTwice == InitTwice /\ [][NextTwice]_vars

(***************************************************************************)
(* A request while the add-item endpoint writes to inventory_items and the *)
(* date moves on                                                           *)
(***************************************************************************)
MaxItems == 2
DEFAULT_SHELF_DAYS == 7

ConcurrentInventories == {<<>>, <<Lot(MILK, 0, 1)>>}

\* expiry_date of an AddItemRequest: absent (0 here) or a given day
ExpiryDates == {0, 1}

\* add_inventory_item: the ingredient is found or created and one row is
\* inserted into inventory_items, expiring on expiry_date or in 7 days
AddInventoryItem(ingredient_id, expiry_date) ==
    /\ Len(inventory_items) < MaxItems
    /\ inventory_items' =
          Append(inventory_items,
                 Lot(ingredient_id,
                     IF expiry_date # 0 THEN expiry_date
                     ELSE today + DEFAULT_SHELF_DAYS,
                     1))
    /\ UNCHANGED <<today, user_recipe_history, user_flavor_profile, settings,
                   pc, request, flavor_profile, inventory_expiry,
                   urgent_items, tier_results, row_idx, tiers, classified,
                   adapter_log, failed_at, response, probe>>

InitConcurrent ==
    /\ today = 0
    /\ inventory_items \in ConcurrentInventories
    /\ user_recipe_history \in Histories
    /\ user_flavor_profile = <<>>
    /\ settings = DefaultSettings
    /\ IdleRequest
    /\ probe = NoProbe

NextConcurrent ==
    \/ Tick
    \/ \E ing \in {MILK, CARROT}, exp \in ExpiryDates :
          AddInventoryItem(ing, exp)
    \/ \E m \in MaxPerTierInputs, inc \in BOOLEAN : GetRecommendations(m, inc)
    \/ GetFlavorProfile
    \/ GetInventoryExpiryMap
    \/ GetUrgentItems
    \/ ExecuteTierQuery
    \/ UpstreamFails
    \/ ScoreRow
    \/ SortAndCap
    \/ SkipTier5
    \/ Tier5Search
    \/ Tier5SearchFails
    \/ Respond

SpecConcurrent == InitConcurrent /\ [][NextConcurrent]_vars

(***************************************************************************)
(* Direct calls of compute_flavor_affinity and _get_inventory_expiry_map   *)
(***************************************************************************)
MaxLots == 3
AxisValues == {Absent, Num(0), Num(1), Num(2)}

\* two axes take every value; the other four are absent or 0 together,
\* but for the last, which is 0 or 1.0
FlavorVectors ==
    {<<a, b, c, c, c, d>> :
        a \in AxisValues, b \in AxisValues, c \in {Absent, Num(0)},
        d \in {Num(0), Num(2)}}

HelperLots ==
    {Lot(ing, exp, qty) : ing \in {MILK, EGG}, exp \in {-1, 2, 5},
                          qty \in {0, 1}}
LotLists == UNION {[1..n -> HelperLots] : n \in 0..MaxLots}

HelperProbe(fn, recipe_vectors, user_profile, lots) ==
    [fn |-> fn, recipe_vectors |-> recipe_vectors,
     user_profile |-> user_profile, lots |-> lots, done |-> FALSE,
     affinity |-> 0, expiry_map |-> <<>>]

InitHelpers ==
    /\ today = 0
    /\ inventory_items = <<>>
    /\ user_recipe_history = {}
    /\ user_flavor_profile = <<>>
    /\ settings = DefaultSettings
    /\ IdleRequest
    /\ probe \in
          {HelperProbe("compute_flavor_affinity", r, u, <<>>) :
              r \in FlavorVectors, u \in FlavorVectors}
          \cup {HelperProbe("_get_inventory_expiry_map", NoAxes, NoAxes, lots) :
              lots \in LotLists}

CallFlavorAffinity ==
    /\ probe.fn = "compute_flavor_affinity"
    /\ ~probe.done
    /\ probe' = [probe EXCEPT
                   !.affinity = compute_flavor_affinity(probe.recipe_vectors,
                                                        probe.user_profile),
                   !.done = TRUE]
    /\ UNCHANGED <<today, db_vars, pc, request, flavor_profile,
                   inventory_expiry, urgent_items, tier_results, row_idx,
                   tiers, classified, adapter_log, failed_at, response>>

\* the rows of inventory_items arrive in the order of probe.lots
CallInventoryExpiryMap ==
    /\ probe.fn = "_get_inventory_expiry_map"
    /\ ~probe.done
    /\ probe' = [probe EXCEPT
                   !.expiry_map = get_inventory_expiry_map(probe.lots, today),
                   !.done = TRUE]
    /\ UNCHANGED <<today, db_vars, pc, request, flavor_profile,
                   inventory_expiry, urgent_items, tier_results, row_idx,
                   tiers, classified, adapter_log, failed_at, response>>

NextHelpers == CallFlavorAffinity \/ CallInventoryExpiryMap

SpecHelpers == InitHelpers /\ [][NextHelpers]_vars

(***************************************************************************)
(* Properties                                                              *)
(***************************************************************************)
Responded == response.status = 200

Abs(x) == IF x >= 0 THEN x ELSE 0 - x

SortedDesc(list) ==
    \A i, j \in DOMAIN list :
        i < j => list[i].relevance_score >= list[j].relevance_score

\* what the tables say about recipe r on the day now
RequiredIds(r) ==
    {recipe_ingredients[k].ingredient_id :
        k \in {n \in DOMAIN recipe_ingredients :
                 /\ recipe_ingredients[n].recipe_id = r
                 /\ ~recipe_ingredients[n].is_optional}}

InStock(ing, items, now) ==
    \E k \in DOMAIN items :
        /\ items[k].ingredient_id = ing
        /\ items[k].quantity > 0
        /\ items[k].computed_expiry >= now

\* p is matched/total rounded to hundredths, a tie going up
IsRoundedPct(p, matched, total) ==
    /\ 2 * p * total <= 200 * matched + total
    /\ 200 * matched + total < 2 * (p + 1) * total

\* the rows of TIER_QUERY hold recipe r exactly as the priority rule wants
ClassifiedByRule(r, rows, items, history, now) ==
    LET req == RequiredIds(r)
        total == Cardinality(req)
        matched == Cardinality({ing \in req : InStock(ing, items, now)})
        missing_count == total - matched
        comfort == r \in history
        full == total > 0 /\ IsRoundedPct(100, matched, total)
        expected == IF total = 0 \/ missing_count > 3 THEN 0
                    ELSE IF full /\ comfort THEN 1
                    ELSE IF full /\ ~comfort THEN 2
                    ELSE IF missing_count \in 1..3 /\ comfort THEN 3
                    ELSE IF missing_count \in 1..3 /\ ~comfort THEN 4
                    ELSE 0
        mine == {i \in DOMAIN rows : rows[i].recipe_id = r}
    IN  IF expected = 0 THEN mine = {}
        ELSE /\ Cardinality(mine) = 1
             /\ \A i \in mine :
                   /\ rows[i].tier = expected
                   /\ rows[i].missing_count = missing_count
                   /\ rows[i].is_comfort = comfort
                   /\ IsRoundedPct(rows[i].match_pct, matched, total)

LastCall == adapter_log[Len(adapter_log)]

\* C2 as claimed: in a response tier 5 is non-empty iff include_tier5 and
\* tiers 1-4 together hold fewer than 5 recipes.
C2_Tier5Iff ==
    Responded =>
        (response.tiers[5] # <<>>
            <=> (request.include_tier5 /\ Total1To4(response.tiers) < 5))

\* C2 amended: tier 5 is non-empty only if include_tier5 and tiers 1-4 hold
\* fewer than 5 recipes; under that condition tier 5 is what the one adapter
\* call answered (possibly nothing), and otherwise no call is made.
C2_Tier5OnlyIf ==
    Responded =>
        IF request.include_tier5 /\ Total1To4(response.tiers) < 5
        THEN /\ Len(adapter_log) = 1
             /\ LastCall.outcome = "ok"
             /\ response.tiers[5] = Tier5Recipes(LastCall.rows)
        ELSE /\ adapter_log = <<>>
             /\ response.tiers[5] = <<>>

C2_Witness ==
    /\ Responded
    /\ response.tiers[5] # <<>>
    /\ Total1To4(response.tiers) = 4

\* C3 as claimed: every tier list of a response is at most max_per_tier long.
C3_LengthCap ==
    Responded =>
        \A t \in 1..5 : Len(response.tiers[t]) <= request.max_per_tier

DescendingSimilarity(rows) ==
    \A i, j \in DOMAIN rows :
        i < j => /\ rows[i].has_similarity
                 /\ rows[j].has_similarity
                 /\ rows[i].similarity >= rows[j].similarity

\* C4: in a response tiers 1-4 are sorted non-increasing by relevance_score,
\* and so is tier 5 when the adapter answered in descending similarity.
C4_Sorted ==
    Responded =>
        /\ \A t \in 1..4 : SortedDesc(response.tiers[t])
        /\ (adapter_log # <<>> /\ DescendingSimilarity(LastCall.rows))
              => SortedDesc(response.tiers[5])

\* a tier whose recipes the query returned in another order than the
\* response has them, and a tier 5 of two entries
C4_Witness ==
    /\ Responded
    /\ Len(response.tiers[5]) = 2
    /\ DescendingSimilarity(LastCall.rows)
    /\ \E t \in 1..4 :
          /\ Len(response.tiers[t]) >= 2
          /\ response.tiers[t] # classified[t]
          /\ response.tiers[t][1].relevance_score
                > response.tiers[t][2].relevance_score

AllScored(ts) == UNION {Range(ts[t]) : t \in DOMAIN ts}

\* C5: every ScoredRecipe of a response has relevance_score, expiry_urgency,
\* flavor_affinity and match_percentage within [0, 1].
C5_ScoresInUnit ==
    Responded =>
        \A r \in AllScored(response.tiers) :
            /\ InUnit(r.relevance_score)
            /\ InUnit(r.expiry_urgency)
            /\ InUnit(r.flavor_affinity)
            /\ InUnit(r.match_percentage)

\* a response under the non-default weights with scored recipes in tiers
\* 1-4 and in tier 5, one of them clamped to 1.0
C5_Witness ==
    /\ Responded
    /\ settings # DefaultSettings
    /\ response.tiers[5] # <<>>
    /\ \E t \in 1..4 : \E i \in DOMAIN response.tiers[t] :
          /\ response.tiers[t][i].relevance_score = ONE
          /\ response.tiers[t][i].expiry_urgency > 0

\* the urgency the specification describes: every matched ingredient
\* contributes clamp(1 - days_left/H, 0, 1)
ClampedUrgency(ids, inv, now) ==
    LET matched == SelectSeq(ids, LAMBDA id : id \in DOMAIN inv)
        part == [i \in DOMAIN matched |->
                    Min(HORIZON_DAYS,
                        Max(0, HORIZON_DAYS - (inv[matched[i]] - now)))]
    IN  IF matched = <<>> THEN 0
        ELSE RoundHalfEven(ONE * SumSeq(part), HORIZON_DAYS * Len(matched))

\* C6 as claimed: compute_expiry_urgency returns the mean over the matched
\* ingredients of clamp(1 - days_left/H, 0, 1), 0.0 when none is matched.
C6_ClampedMean ==
    (probe.fn = "compute_expiry_urgency" /\ probe.done) =>
        probe.out = ClampedUrgency(probe.ids, probe.inv, today)

\* C7: compute_relevance_score returns clamp(w_expiry * urgency + w_flavor *
\* affinity + w_familiar * familiarity, 0, 1) rounded to 3 decimals, with
\* familiarity 1.0 for comfort and 0.2 otherwise; the default weights give
\* 0.807 for urgency 0.571, affinity 1.0, comfort.
C7_Relevance ==
    (probe.fn = "compute_relevance_score" /\ probe.done) =>
        LET fam == IF probe.is_comfort THEN 1000 ELSE 200
            raw == settings.WEIGHT_EXPIRY * probe.expiry_urgency
                   + settings.WEIGHT_FLAVOR * probe.flavor_affinity
                   + settings.WEIGHT_FAMILIAR * fam
            clamped == IF raw < 0 THEN 0
                       ELSE IF raw > 100000 THEN 100000 ELSE raw
        IN  /\ 2 * Abs(100 * probe.out - clamped) <= 100
            /\ (/\ settings = DefaultSettings
                /\ probe.expiry_urgency = 571
                /\ probe.flavor_affinity = 1000
                /\ probe.is_comfort) => probe.out = 807

C7_Witness ==
    /\ probe.fn = "compute_relevance_score"
    /\ probe.done
    /\ settings = DefaultSettings
    /\ probe.expiry_urgency = 571
    /\ probe.flavor_affinity = 1000
    /\ probe.is_comfort
    /\ probe.out = 807

\* the recipes of the rows other than the one at row_idx
OtherRecipes == {tier_results[i].recipe_id :
                    i \in DOMAIN tier_results \ {row_idx}}

\* C8 as claimed: when scoring or constructing one recipe fails, the
\* request still succeeds and the response holds every other classified
\* recipe (max_per_tier permitting).
C8_BadRecipeSkipped ==
    (pc = "done" /\ failed_at \in {"scoring", "validation"}) =>
        /\ Responded
        /\ request.max_per_tier = MAX_PER_TIER_LE =>
              OtherRecipes \subseteq
                  {r.recipe_id : r \in AllScored(response.tiers)}

\* C9 as claimed: when the adapter call fails, the request still succeeds
\* with tiers 1-4 as they were and tier 5 empty.
C9_AdapterSoftFailure ==
    (pc = "done" /\ failed_at = "adapter") =>
        /\ Responded
        /\ response.tiers = [tiers EXCEPT ![5] = <<>>]

UpstreamSteps == {"profile", "inventory", "urgent", "tier_query", "ingredients"}

\* C10: when an upstream fetch fails, the request ends as a server error
\* that carries no tiers, no urgent items and no count; a response is only
\* ever produced by a request in which nothing failed.
C10_UpstreamPropagates ==
    /\ failed_at \in UpstreamSteps =>
          /\ pc = "done"
          /\ response = ErrorResponse(500)
    /\ Responded => failed_at = "none"

\* the ingredient-id fetch of a later row fails after some recipe was scored
C10_Witness ==
    /\ failed_at = "ingredients"
    /\ row_idx > 1
    /\ AllScored(tiers) # {}
    /\ response.status = 500

\* the similarity, in ten-thousandths, that _tier5_search reads from a row
ReadSimilarity(row) == IF row.has_similarity THEN row.similarity ELSE 5 * ONE

\* a tier-5 entry carries nothing but the row's id and the constants
Tier5Shape(entry, row) ==
    /\ entry.recipe_id = row.recipe_id
    /\ entry.tier = 5
    /\ entry.match_percentage = 0
    /\ entry.missing_ingredients = <<>>
    /\ entry.expiry_urgency = 0
    /\ ~entry.is_comfort

\* C11 as claimed: every tier-5 entry of a response is built from the
\* adapter's row alone, with relevance_score and flavor_affinity both equal
\* to the reported similarity, match_percentage 0.0 and is_comfort false.
C11_Tier5EqualsSimilarity ==
    (Responded /\ adapter_log # <<>>) =>
        /\ Len(response.tiers[5]) = Len(LastCall.rows)
        /\ \A i \in DOMAIN response.tiers[5] :
              /\ Tier5Shape(response.tiers[5][i], LastCall.rows[i])
              /\ LastCall.rows[i].has_similarity =>
                    /\ 10 * response.tiers[5][i].relevance_score
                          = LastCall.rows[i].similarity
                    /\ 10 * response.tiers[5][i].flavor_affinity
                          = LastCall.rows[i].similarity

\* C11 amended: relevance_score and flavor_affinity are both the reported
\* similarity rounded to three decimals (0.5 when the row reports none);
\* the rest as claimed, the weighted formula playing no part.
C11_Tier5RoundedSimilarity ==
    (Responded /\ adapter_log # <<>>) =>
        /\ Len(response.tiers[5]) = Len(LastCall.rows)
        /\ \A i \in DOMAIN response.tiers[5] :
              /\ Tier5Shape(response.tiers[5][i], LastCall.rows[i])
              /\ 2 * Abs(10 * response.tiers[5][i].relevance_score
                         - ReadSimilarity(LastCall.rows[i])) <= 10
              /\ response.tiers[5][i].flavor_affinity
                    = response.tiers[5][i].relevance_score

\* a tier-5 entry whose similarity has a fourth decimal, under the default
\* weights
C11_Witness ==
    /\ Responded
    /\ settings = DefaultSettings
    /\ \E i \in DOMAIN response.tiers[5] :
          /\ LastCall.rows[i].similarity = 9876
          /\ response.tiers[5][i].relevance_score = 988

\* C12: a request calls the adapter at most once, only with include_tier5
\* set and fewer than 5 recipes in tiers 1-4 at the time of the call, and
\* only before the response exists; the response's tier 5 and count then
\* hold what the call returned.
C12_AdapterOnceWhenTriggered ==
    /\ [][adapter_log' # adapter_log =>
            /\ adapter_log = <<>>
            /\ Len(adapter_log') = 1
            /\ request.include_tier5
            /\ Total1To4(tiers) < 5
            /\ response = NoResponse]_vars
    /\ [](Responded /\ adapter_log # <<>> =>
            /\ Len(response.tiers[5]) = Len(LastCall.rows)
            /\ response.total_recipes
                  = Total1To4(response.tiers) + Len(LastCall.rows))

\* a response after one call that returned two rows, and counts them
C12_Witness ==
    /\ Responded
    /\ Len(adapter_log) = 1
    /\ Len(LastCall.rows) = 2
    /\ response.total_recipes = Total1To4(response.tiers) + 2

\* the tiers of a response in which recipe id r appears
TiersOf(r, ts) ==
    {t \in DOMAIN ts : \E i \in DOMAIN ts[t] : ts[t][i].recipe_id = r}

\* C13 as claimed: no recipe_id appears in more than one tier of a response.
C13_TiersDisjoint ==
    Responded =>
        \A r \in RecipeIds : Cardinality(TiersOf(r, response.tiers)) <= 1

\* the entry of a tier 1-4 reports matched/total of the tables on day now
ReportsCoverage(entry, items, now) ==
    LET req == RequiredIds(entry.recipe_id)
        total == Cardinality(req)
        matched == Cardinality({ing \in req : InStock(ing, items, now)})
    IN  /\ entry.match_percentage * total = ONE * matched
        /\ Len(entry.missing_ingredients) = total - matched
        /\ entry.match_percentage = ONE
              <=> Len(entry.missing_ingredients) = 0

\* C14 as claimed: every recipe of tiers 1-4 of a response reports
\* match_percentage = matched/total and total - matched missing ingredients
\* (as of the day the tier query ran), so match_percentage is 1.0 exactly
\* when nothing is missing.
C14_MatchPercentage ==
    Responded =>
        \E now \in 0..today :
            \A t \in 1..4 : \A i \in DOMAIN response.tiers[t] :
                ReportsCoverage(response.tiers[t][i], inventory_items, now)

\* C15: for a fixed inventory and cook history, adding optional
\* requirements to a recipe (in stock or not) or removing its optional
\* requirements leaves it reported or not as before, with the same tier,
\* match_percentage, missing_ingredients and expiry_urgency.
C15_OptionalInformational ==
    probe.done =>
        /\ Len(probe.variant) = Len(probe.base)
        /\ \A i \in DOMAIN probe.base :
              /\ probe.variant[i].tier = probe.base[i].tier
              /\ probe.variant[i].match_percentage
                    = probe.base[i].match_percentage
              /\ probe.variant[i].missing_ingredients
                    = probe.base[i].missing_ingredients
              /\ probe.variant[i].expiry_urgency
                    = probe.base[i].expiry_urgency

\* recipe 1 loses its optional egg and gains optional milk (in stock, also
\* required) and tofu (not in stock) while it has a missing ingredient and
\* a positive urgency
C15_Witness ==
    /\ probe.done
    /\ probe.recipe_id = 1
    /\ probe.dropped
    /\ probe.added = <<MILK, TOFU>>
    /\ Len(probe.base) = 1
    /\ probe.base[1].missing_ingredients # <<>>
    /\ probe.base[1].expiry_urgency > 0

\* the lots that are in stock and expire within 0..2 days of the day now
NearingExpiry(items, now) ==
    {k \in DOMAIN items :
        /\ items[k].quantity > 0
        /\ items[k].computed_expiry - now \in 0..2}

\* C16 as claimed: the urgent_items of a response are exactly the valid
\* inventory items with days_remaining between 0 and 2 inclusive (as of the
\* day they were fetched), one entry per item; stated for the requests with
\* max_per_tier in 0..50.
C16_UrgentWithinTwoDays ==
    (Responded /\ request.max_per_tier \in 0..MAX_PER_TIER_LE) =>
        \E now \in 0..today :
            /\ Len(response.urgent_items)
                  = Cardinality(NearingExpiry(inventory_items, now))
            /\ Range(response.urgent_items)
                  = {[ingredient_name |-> inventory_items[k].ingredient_id,
                      days_remaining |->
                          inventory_items[k].computed_expiry - now,
                      quantity |-> inventory_items[k].quantity] :
                        k \in NearingExpiry(inventory_items, now)}

\* C17 as claimed: a request whose max_per_tier is above 50 or negative is
\* rejected by the endpoint, and generate never runs with max_per_tier
\* outside 0..50.
C17_MaxPerTierValidated ==
    (pc # "idle" /\ request.max_per_tier \notin 0..MAX_PER_TIER_LE) =>
        /\ pc = "done"
        /\ response = ErrorResponse(422)

\* the adapter answered the second call as it answered the first
SameAdapterResult ==
    (adapter_log # <<>> /\ probe.adapter_log # <<>>) =>
        LastCall.rows = probe.adapter_log[1].rows

\* C18 as claimed: with the tables, the weights, the date and the adapter's
\* result unchanged, the second of two calls with the same arguments (in
\* 0..50) returns the tiers, orderings, scores, urgent items and count of
\* the first.
C18_Idempotent ==
    (/\ probe # NoProbe
     /\ Responded
     /\ request.max_per_tier \in 0..MAX_PER_TIER_LE
     /\ SameAdapterResult) =>
        /\ response.tiers = probe.response.tiers
        /\ response.urgent_items = probe.response.urgent_items
        /\ response.total_recipes = probe.response.total_recipes

\* C19: every response has a tiers mapping with exactly the keys 1..5, each
\* mapped to a list, whatever was classified and whether or not the
\* fallback ran.
C19_FiveKeys ==
    Responded =>
        /\ DOMAIN response.tiers = 1..5
        /\ \A t \in DOMAIN response.tiers :
              DOMAIN response.tiers[t] = 1..Len(response.tiers[t])

\* a response with nothing in any tier and no fallback call
C19_Witness ==
    /\ Responded
    /\ adapter_log = <<>>
    /\ classified # EmptyTiers
    /\ \A t \in 1..5 : response.tiers[t] = <<>>

\* C20: in every response total_recipes is the sum of the lengths of the
\* five returned lists, after truncation and with tier 5 counted.
C20_TotalRecipes ==
    Responded =>
        response.total_recipes
            = Len(response.tiers[1]) + Len(response.tiers[2])
              + Len(response.tiers[3]) + Len(response.tiers[4])
              + Len(response.tiers[5])

\* a response with a truncated tier and a fallback entry
C20_Witness ==
    /\ Responded
    /\ Len(response.tiers[5]) = 1
    /\ \E t \in 1..4 : /\ response.tiers[t] # <<>>
                       /\ Len(response.tiers[t]) < Len(classified[t])
    /\ response.total_recipes >= 2

\* the six numbers of a flavor dict, 0.5 standing in for an absent axis
Filled(vectors) ==
    [i \in 1..6 |-> IF vectors[i] = Absent THEN 1 ELSE vectors[i].v]

SquaredNorm(v) == SumSeq([i \in 1..6 |-> v[i] * v[i]])

\* out, in thousandths, is the cosine of the vectors a and b (neither of
\* zero magnitude, no negative entry), cut to three decimals
IsCosine(out, a, b) ==
    LET dot == SumSeq([i \in 1..6 |-> a[i] * b[i]])
        norm2 == SquaredNorm(a) * SquaredNorm(b)
    IN  /\ out >= 0
        /\ out * out * norm2 <= dot * dot * 1000000
        /\ dot * dot * 1000000 < (out + 1) * (out + 1) * norm2

\* C21: compute_flavor_affinity returns 0.5 when the recipe vector or the
\* user vector has zero magnitude, and otherwise the cosine of the two
\* vectors with 0.5 put in for every axis missing on either side.
C21_ZeroMagnitudeNeutral ==
    (probe.fn = "compute_flavor_affinity" /\ probe.done) =>
        LET r == Filled(probe.recipe_vectors)
            u == Filled(probe.user_profile)
        IN  IF SquaredNorm(r) = 0 \/ SquaredNorm(u) = 0
            THEN probe.affinity = 500
            ELSE IsCosine(probe.affinity, r, u)

\* a user vector of six zeros against a recipe with a missing axis
C21_Witness ==
    /\ probe.fn = "compute_flavor_affinity"
    /\ probe.done
    /\ probe.user_profile = Vec6(0, 0, 0, 0, 0, 0)
    /\ probe.recipe_vectors[1] = Absent
    /\ probe.recipe_vectors[2] = Num(2)
    /\ probe.affinity = 500

\* the rows that the filters of the expiry-map query let through
ValidRows(lots, now) ==
    {k \in DOMAIN lots : lots[k].quantity > 0 /\ lots[k].computed_expiry >= now}

\* C24: the expiry map holds exactly the ingredients that have a valid lot
\* (quantity > 0, expiry >= today) and maps each to the earliest expiry
\* among its valid lots, in whatever order the lots are returned.
C24_EarliestValidExpiry ==
    (probe.fn = "_get_inventory_expiry_map" /\ probe.done) =>
        LET valid == ValidRows(probe.lots, today)
        IN  /\ DOMAIN probe.expiry_map
                  = {probe.lots[k].ingredient_id : k \in valid}
            /\ \A ing \in DOMAIN probe.expiry_map :
                  /\ \E k \in valid :
                        /\ probe.lots[k].ingredient_id = ing
                        /\ probe.lots[k].computed_expiry = probe.expiry_map[ing]
                  /\ \A k \in valid :
                        probe.lots[k].ingredient_id = ing =>
                            probe.lots[k].computed_expiry >= probe.expiry_map[ing]

\* milk with the later lot first and an expired lot last; the egg lot is
\* absent from the map
C24_Witness ==
    /\ probe.fn = "_get_inventory_expiry_map"
    /\ probe.done
    /\ probe.lots = <<Lot(MILK, 2, 1), Lot(MILK, 5, 1), Lot(MILK, -1, 1)>>
    /\ DOMAIN probe.expiry_map = {MILK}
    /\ probe.expiry_map[MILK] = 2

\* the flavor numbers of a catalogue recipe, 0.5 for what is absent
RecipeVector(id) ==
    LET rec == recipes[CHOOSE i \in DOMAIN recipes : recipes[i].id = id]
    IN  Filled(IF rec.flavor_null THEN NoAxes ELSE rec.flavor_vectors)

AllNeutral == [i \in 1..6 |-> 1]

\* C22: for a user without a stored flavor profile the engine goes on with
\* the profile of six times 0.5: the recipes of tiers 1-4 are scored
\* against it and the adapter, when called, gets it as the query vector.
C22_NeutralWhenNoProfile ==
    user_flavor_profile = <<>> =>
        /\ pc \in {"inventory", "urgent", "tier_query", "score", "tier5",
                    "respond"} => Filled(flavor_profile) = AllNeutral
        /\ adapter_log # <<>> => LastCall.query_embedding = AllNeutral
        /\ Responded =>
              \A t \in 1..4 : \A i \in DOMAIN response.tiers[t] :
                  LET r == RecipeVector(response.tiers[t][i].recipe_id)
                  IN  IF SquaredNorm(r) = 0
                      THEN response.tiers[t][i].flavor_affinity = 500
                      ELSE IsCosine(response.tiers[t][i].flavor_affinity,
                                    r, AllNeutral)

\* a response for such a user after a fallback call, with a recipe whose
\* affinity is neither 0.5 nor 1.0
C22_Witness ==
    /\ Responded
    /\ user_flavor_profile = <<>>
    /\ response.tiers[5] # <<>>
    /\ \E t \in 1..4 : \E i \in DOMAIN response.tiers[t] :
          response.tiers[t][i].flavor_affinity \notin {500, 1000}

\* the place of recipe id among the rows the tier query returned
RowOf(id) == CHOOSE i \in DOMAIN tier_results : tier_results[i].recipe_id = id

\* C23: two recipes of the same tier (1-4) with equal relevance_score are
\* in the response in the relative order in which the tier query returned
\* them.
C23_StableSort ==
    Responded =>
        \A t \in 1..4 : \A i, j \in DOMAIN response.tiers[t] :
            (/\ i < j
             /\ response.tiers[t][i].relevance_score
                   = response.tiers[t][j].relevance_score)
            => RowOf(response.tiers[t][i].recipe_id)
                  < RowOf(response.tiers[t][j].recipe_id)

\* recipes 4 and 1 tie in a tier and the query returned recipe 4 first
C23_Witness ==
    /\ Responded
    /\ \E t \in 1..4 : \E i, j \in DOMAIN response.tiers[t] :
          /\ i < j
          /\ response.tiers[t][i].recipe_id = 4
          /\ response.tiers[t][j].recipe_id = 1
          /\ response.tiers[t][i].relevance_score
                = response.tiers[t][j].relevance_score

\* the stored value of an axis, or 0.5 for a user without a profile
StoredAxis(axis) ==
    IF user_flavor_profile = <<>> THEN 1
    ELSE user_flavor_profile[1][AxisIndex(axis)].v

\* C25: every call of the adapter carries the user's flavor profile in the
\* order sweet, salty, sour, bitter, umami, spicy as the query vector and
\* the request's max_per_tier as the result cap.
C25_QueryVectorAndCap ==
    \A k \in DOMAIN adapter_log :
        /\ adapter_log[k].match_count = request.max_per_tier
        /\ adapter_log[k].query_embedding
              = <<StoredAxis("sweet"), StoredAxis("salty"), StoredAxis("sour"),
                  StoredAxis("bitter"), StoredAxis("umami"),
                  StoredAxis("spicy")>>

\* a call for a user whose stored profile differs from axis to axis
C25_Witness ==
    /\ Responded
    /\ adapter_log # <<>>
    /\ LastCall.match_count = 1
    /\ LastCall.query_embedding = <<2, 1, 1, 1, 1, 0>>

\* C26 as claimed: once step 5 is over for a request with include_tier5
\* set and 4 * max_per_tier < 5, the adapter has been called, however many
\* recipes were classified into tiers 1-4.
C26_CountAfterTruncation ==
    (/\ pc = "respond"
     /\ request.include_tier5
     /\ 4 * request.max_per_tier < 5) => adapter_log # <<>>

\* the required ingredients of recipe r that are not in stock on day now
MissingOf(r, items, now) ==
    {ing \in RequiredIds(r) : ~InStock(ing, items, now)}

\* C27 as claimed: in a response (max_per_tier in 0..50) every recipe of
\* tier 1 or 2 has no missing ingredient, in its list and by the tables,
\* and every recipe of tier 3 or 4 has between 1 and 3, whatever the number
\* of its non-optional requirements.
C27_MissingCountByTier ==
    (Responded /\ request.max_per_tier \in 0..MAX_PER_TIER_LE) =>
        \E now \in 0..today :
            \A t \in 1..4 : \A i \in DOMAIN response.tiers[t] :
                LET listed == Len(response.tiers[t][i].missing_ingredients)
                    missing == Cardinality(MissingOf(
                                   response.tiers[t][i].recipe_id,
                                   inventory_items, now))
                IN  /\ listed = missing
                    /\ t \in {1, 2} => missing = 0
                    /\ t \in {3, 4} => missing \in 1..3

\* C28: in a response every recipe of tier 1 or 3 has is_comfort = true,
\* every recipe of tier 2, 4 or 5 has is_comfort = false, and the tier
\* field of each entry is the key of the list that holds it.
C28_ComfortAgreesWithTier ==
    Responded =>
        \A t \in 1..5 : \A i \in DOMAIN response.tiers[t] :
            /\ response.tiers[t][i].tier = t
            /\ response.tiers[t][i].is_comfort <=> t \in {1, 3}

\* a response with comfort and discovery recipes and a fallback entry
C28_Witness ==
    /\ Responded
    /\ response.tiers[5] # <<>>
    /\ response.tiers[1] # <<>> \/ response.tiers[3] # <<>>
    /\ response.tiers[2] # <<>> \/ response.tiers[4] # <<>>

\* the recipe ids of a list of ScoredRecipe
IdsOf(list) == {list[i].recipe_id : i \in DOMAIN list}

\* C29: for max_per_tier >= 0 and each of tiers 1-4, no recipe classified
\* into the tier and dropped from the response has a relevance_score above
\* that of a recipe of the tier that was kept.
C29_TruncationKeepsBest ==
    (Responded /\ request.max_per_tier >= 0) =>
        \A t \in 1..4 : \A d \in DOMAIN classified[t] :
            classified[t][d].recipe_id \notin IdsOf(response.tiers[t]) =>
                \A k \in DOMAIN response.tiers[t] :
                    classified[t][d].relevance_score
                        <= response.tiers[t][k].relevance_score

\* the recipe the query returned first is dropped for a better one
C29_Witness ==
    /\ Responded
    /\ request.max_per_tier = 1
    /\ \E t \in 1..4 :
          /\ Len(classified[t]) >= 2
          /\ classified[t][1].recipe_id \notin IdsOf(response.tiers[t])
          /\ classified[t][1].relevance_score
                < response.tiers[t][1].relevance_score

\* C30 as claimed: while items are added and the date moves on between the
\* fetches of a request, every recipe of tiers 1-4 of the response is
\* scored on one snapshot: its required ingredients found in the expiry
\* map are exactly those the tier query did not report missing, so a
\* recipe of tier 1 or 2 has all its required ingredients in the map.
C30_ConsistentSnapshot ==
    (Responded /\ request.max_per_tier \in 0..MAX_PER_TIER_LE) =>
        \A t \in 1..4 : \A i \in DOMAIN response.tiers[t] :
            LET req == RequiredIds(response.tiers[t][i].recipe_id)
            IN  {ing \in req : ing \in DOMAIN inventory_expiry}
                  = req \ Range(response.tiers[t][i].missing_ingredients)

====
